---- MODULE Spec2Model ----
(***************************************************************************)
(* A model of the early-pulse chatbot backend: the two chat handlers, the  *)
(* routine router with its document store, and the three pure text         *)
(* transformations they rely on (the point normalizer, the fence-tolerant  *)
(* routine parser and the domain classifier's reply test).                 *)
(*                                                                         *)
(* Strings are sequences of symbols.  A symbol is one character, except    *)
(* for "word" (a run of LengthThreshold letters), "bullet" (U+2022),       *)
(* "fence" (three backticks), "json" (the language tag) and the JSON       *)
(* literals "sa", "sb" (two string literals) and "n2" (a number).          *)
(***************************************************************************)
EXTENDS Integers, Sequences, FiniteSets, TLC

VARIABLES
    req,        \* per request slot: the handler's locals, position and response
    store,      \* the routines collection: documents in insertion order
    now,        \* the wall clock read by new Date() / Date.now
    writes,     \* history: per document, its last write and the one before
    ended,      \* history: the routine requests that have been answered
    normText,   \* normalizer run: the raw model text
    normPoints, \* normalizer run: the points computed from normText
    normAgain,  \* normalizer run: the points computed from the joined points
    normPc,     \* normalizer run: position
    rpInner,    \* routine parse run: the reply without a fence
    rpForm,     \* routine parse run: how the reply is fenced
    rpOutcome,  \* routine parse run: the request, before and after the reply
    rpPc,       \* routine parse run: position
    clOutcome,  \* classifier run: what the classification call produced
    clResult,   \* classifier run: what isHealthRelated handed to its caller
    clPc        \* classifier run: position

serverVars == <<req, store, now, writes, ended>>
normVars == <<normText, normPoints, normAgain, normPc>>
rpVars == <<rpInner, rpForm, rpOutcome, rpPc>>
clVars == <<clOutcome, clResult, clPc>>
runVars == <<normVars, rpVars, clVars>>
vars == <<req, store, now, writes, ended, normText, normPoints, normAgain,
          normPc, rpInner, rpForm, rpOutcome, rpPc, clOutcome, clResult, clPc>>

(***************************************************************************)
(* Strings                                                                 *)
(***************************************************************************)
\* All sequences over S of length at most n.
SeqsUpTo(S, n) == UNION {[1..k -> S] : k \in 0..n}

\* What \s matches and String.prototype.trim removes (a line break included).
WhiteSpace == {" ", "\n"}

RECURSIVE DropWhile(_, _)
DropWhile(s, S) ==
    IF s # <<>> /\ Head(s) \in S THEN DropWhile(Tail(s), S) ELSE s

RECURSIVE DropWhileEnd(_, _)
DropWhileEnd(s, S) ==
    IF s # <<>> /\ s[Len(s)] \in S
    THEN DropWhileEnd(SubSeq(s, 1, Len(s) - 1), S)
    ELSE s

\* String.prototype.trim
Trim(s) == DropWhileEnd(DropWhile(s, WhiteSpace), WhiteSpace)

(***************************************************************************)
(* The chat normalizer                                                     *)
(***************************************************************************)
LengthThreshold == 10

\* String.prototype.length: "word" stands for LengthThreshold letters.
RECURSIVE StrLen(_)
StrLen(s) ==
    IF s = <<>> THEN 0
    ELSE (IF Head(s) = "word" THEN LengthThreshold ELSE 1) + StrLen(Tail(s))

\* text.split("\n"): at least one element, empty ones kept.
RECURSIVE SplitLines(_)
SplitLines(text) ==
    IF \E i \in 1..Len(text) : text[i] = "\n"
    THEN LET i == CHOOSE k \in 1..Len(text) :
                      text[k] = "\n" /\ \A j \in 1..(k - 1) : text[j] # "\n"
         IN  <<SubSeq(text, 1, i - 1)>> \o SplitLines(SubSeq(text, i + 1, Len(text)))
    ELSE <<text>>

\* lines.join("\n")
RECURSIVE JoinLines(_)
JoinLines(lines) ==
    IF lines = <<>> THEN <<>>
    ELSE IF Len(lines) = 1 THEN lines[1]
    ELSE lines[1] \o <<"\n">> \o JoinLines(Tail(lines))

\* .replace(/\*\*/g, ""): non-overlapping pairs, left to right.
RECURSIVE RemoveBold(_)
RemoveBold(s) ==
    IF Len(s) < 2 THEN s
    ELSE IF s[1] = "*" /\ s[2] = "*" THEN RemoveBold(SubSeq(s, 3, Len(s)))
    ELSE <<s[1]>> \o RemoveBold(Tail(s))

\* .replace(/\*/g, "")
RemoveItalics(s) == SelectSeq(s, LAMBDA c : c # "*")

\* .replace(/^[-•*]\s*/, ""): one marker and the white space after it.
BulletChars == {"-", "bullet", "*"}
RemoveBullet(s) ==
    IF s # <<>> /\ Head(s) \in BulletChars THEN DropWhile(Tail(s), WhiteSpace) ELSE s

\* .replace(/^#+\s*/, "")
RemoveHeader(s) ==
    IF s # <<>> /\ Head(s) = "#"
    THEN DropWhile(DropWhile(s, {"#"}), WhiteSpace)
    ELSE s

\* .replace(/\s+/g, " ")
RECURSIVE NormalizeSpaces(_)
NormalizeSpaces(s) ==
    IF s = <<>> THEN <<>>
    ELSE IF Head(s) \in WhiteSpace
         THEN <<" ">> \o NormalizeSpaces(DropWhile(s, WhiteSpace))
         ELSE <<Head(s)>> \o NormalizeSpaces(Tail(s))

\* The .map callback: one line cleaned.
CleanPoint(point) ==
    Trim(NormalizeSpaces(RemoveHeader(RemoveBullet(RemoveItalics(RemoveBold(point))))))

\* point.match(/^[:#\-=]/)
SeparatorChars == {":", "#", "-", "="}
IsSeparatorLine(point) == point # <<>> /\ Head(point) \in SeparatorChars

\* text.split("\n").filter(..).map(..).filter(..).filter(..)
NormalizePoints(text) ==
    LET lines   == SelectSeq(SplitLines(text), LAMBDA line : Trim(line) # <<>>)
        cleaned == [i \in 1..Len(lines) |-> CleanPoint(lines[i])]
        kept    == SelectSeq(cleaned, LAMBDA p : p # <<>> /\ ~IsSeparatorLine(p))
    IN  SelectSeq(kept, LAMBDA p : StrLen(p) > LengthThreshold)

(***************************************************************************)
(* A run of the normalizer on one raw model text, then on its own output   *)
(***************************************************************************)
MaxTextLen == 4
NormChars == {"*", "-", "bullet", "#", ":", "=", " ", "\n", "a", "word"}

NormInit ==
    /\ normText \in SeqsUpTo(NormChars, MaxTextLen)
    /\ normPoints = <<>>
    /\ normAgain = <<>>
    /\ normPc = "raw"

Normalize ==
    /\ normPc = "raw"
    /\ normPoints' = NormalizePoints(normText)
    /\ normPc' = "normalized"
    /\ UNCHANGED <<normText, normAgain, serverVars, rpVars, clVars>>

Renormalize ==
    /\ normPc = "normalized"
    /\ normAgain' = NormalizePoints(JoinLines(normPoints))
    /\ normPc' = "renormalized"
    /\ UNCHANGED <<normText, normPoints, serverVars, rpVars, clVars>>

(***************************************************************************)
(* The routine reply parser                                                *)
(***************************************************************************)
StringLiterals == {"sa", "sb"}
NumberLiterals == {"n2"}

NoValue == [k |-> "none", s |-> "", e |-> <<>>]
JsonFail == [ok |-> FALSE, val |-> NoValue, rest |-> <<>>]
JsonArray(elems) == [k |-> "array", s |-> "", e |-> elems]
JsonObject(vals) == [k |-> "object", s |-> "", e |-> vals]

\* JSON.parse on the tokens of a text: one value, its elements or members.
RECURSIVE ParseValue(_), ParseElements(_, _), ParseMembers(_, _)
ParseValue(t) ==
    IF t = <<>> THEN JsonFail
    ELSE IF Head(t) \in StringLiterals
         THEN [ok |-> TRUE, val |-> [k |-> "string", s |-> Head(t), e |-> <<>>],
               rest |-> Tail(t)]
    ELSE IF Head(t) \in NumberLiterals
         THEN [ok |-> TRUE, val |-> [k |-> "number", s |-> Head(t), e |-> <<>>],
               rest |-> Tail(t)]
    ELSE IF Head(t) = "["
         THEN IF Len(t) >= 2 /\ t[2] = "]"
              THEN [ok |-> TRUE, val |-> JsonArray(<<>>), rest |-> SubSeq(t, 3, Len(t))]
              ELSE ParseElements(Tail(t), <<>>)
    ELSE IF Head(t) = "{"
         THEN IF Len(t) >= 2 /\ t[2] = "}"
              THEN [ok |-> TRUE, val |-> JsonObject(<<>>), rest |-> SubSeq(t, 3, Len(t))]
              ELSE ParseMembers(Tail(t), <<>>)
    ELSE JsonFail

ParseElements(t, acc) ==
    LET v == ParseValue(t)
    IN  IF ~v.ok \/ v.rest = <<>> THEN JsonFail
        ELSE IF Head(v.rest) = ","
             THEN ParseElements(Tail(v.rest), Append(acc, v.val))
        ELSE IF Head(v.rest) = "]"
             THEN [ok |-> TRUE, val |-> JsonArray(Append(acc, v.val)),
                   rest |-> Tail(v.rest)]
        ELSE JsonFail

ParseMembers(t, acc) ==
    IF Len(t) < 2 \/ Head(t) \notin StringLiterals \/ t[2] # ":" THEN JsonFail
    ELSE LET v == ParseValue(SubSeq(t, 3, Len(t)))
         IN  IF ~v.ok \/ v.rest = <<>> THEN JsonFail
             ELSE IF Head(v.rest) = ","
                  THEN ParseMembers(Tail(v.rest), Append(acc, v.val))
             ELSE IF Head(v.rest) = "}"
                  THEN [ok |-> TRUE, val |-> JsonObject(Append(acc, v.val)),
                        rest |-> Tail(v.rest)]
             ELSE JsonFail

\* JSON.parse(raw): white space between tokens is skipped, nothing may follow.
JSONParse(raw) ==
    LET v == ParseValue(SelectSeq(raw, LAMBDA c : c \notin WhiteSpace))
    IN  IF v.ok /\ v.rest = <<>> THEN v ELSE JsonFail

\* A faulty variant of StripFence: the json tag is not part of the fence.
StripFenceNoTag(raw) ==
    IF raw # <<>> /\ Head(raw) = "fence"
    THEN LET c == DropWhile(Tail(raw), WhiteSpace)
         IN  IF c # <<>> /\ c[Len(c)] = "fence"
             THEN DropWhileEnd(SubSeq(c, 1, Len(c) - 1), WhiteSpace)
             ELSE c
    ELSE raw

\* The fence removal: a leading fence with an optional json tag and the white
\* space after it, then a trailing fence with the white space before it.
StripFence(raw) ==
    IF raw # <<>> /\ Head(raw) = "fence"
    THEN LET a == Tail(raw)
             b == IF a # <<>> /\ Head(a) = "json" THEN Tail(a) ELSE a
             c == DropWhile(b, WhiteSpace)
         IN  IF c # <<>> /\ c[Len(c)] = "fence"
             THEN DropWhileEnd(SubSeq(c, 1, Len(c) - 1), WhiteSpace)
             ELSE c
    ELSE raw

\* Array.isArray(routineTasks) && routineTasks.every((t) => typeof t === "string")
IsStringArray(v) == v.k = "array" /\ \A i \in 1..Len(v.e) : v.e[i].k = "string"

\* The handler from response.text().trim() to routineTasks, or the thrown error.
ParseRoutine(text) ==
    LET p == JSONParse(StripFence(Trim(text)))
    IN  IF p.ok /\ IsStringArray(p.val)
        THEN [ok |-> TRUE, tasks |-> [i \in 1..Len(p.val.e) |-> p.val.e[i].s]]
        ELSE [ok |-> FALSE, tasks |-> <<>>]

(***************************************************************************)
(* The domain classifier                                                   *)
(***************************************************************************)
\* String.prototype.toLowerCase
LowerChar(c) ==
    IF c = "T" THEN "t" ELSE IF c = "R" THEN "r" ELSE IF c = "U" THEN "u"
    ELSE IF c = "E" THEN "e" ELSE c
ToLowerCase(s) == [i \in 1..Len(s) |-> LowerChar(s[i])]

\* A faulty variant of isHealthRelated: a failed call is not caught.
isHealthRelatedUncaught(outcome) ==
    IF outcome.failed
    THEN [value |-> FALSE, threw |-> TRUE]
    ELSE [value |-> Trim(ToLowerCase(outcome.text)) = <<"t", "r", "u", "e">>,
          threw |-> FALSE]

\* isHealthRelated: outcome is the classification call's (failed, or the text
\* of its reply); the result is what the caller of isHealthRelated sees.
isHealthRelated(outcome) ==
    IF outcome.failed
    THEN [value |-> FALSE, threw |-> FALSE]
    ELSE [value |-> Trim(ToLowerCase(outcome.text)) = <<"t", "r", "u", "e">>,
          threw |-> FALSE]

(***************************************************************************)
(* A run of the classifier on one outcome of the classification call       *)
(***************************************************************************)
MaxVerdictLen == 5
ClassifierChars == {"t", "r", "u", "e", "T", "E", "\n", "x"}
CallFailed == [failed |-> TRUE, text |-> <<>>]
CallReplied(t) == [failed |-> FALSE, text |-> t]

ClassifyInit ==
    /\ clOutcome \in {CallFailed}
           \cup {CallReplied(t) : t \in SeqsUpTo(ClassifierChars, MaxVerdictLen)}
    /\ clResult = [value |-> FALSE, threw |-> FALSE]
    /\ clPc = "called"

ClassifyReturn ==
    /\ clPc = "called"
    /\ clResult' = isHealthRelated(clOutcome)
    /\ clPc' = "returned"
    /\ UNCHANGED <<clOutcome, serverVars, normVars, rpVars>>

(***************************************************************************)
(* The server: request slots, the uploaded files, the routines collection  *)
(***************************************************************************)
MaxReq == 2
Req == 1..MaxReq
\* One more slot, for a fetch-current request observed next to the others.
Fetcher == MaxReq + 1
Slots == Req \cup {Fetcher}
UserIds == {"u1", "u2"}
NoUserId == ""

\* routineQuestions.length
NumQuestions == 10

\* req.body.answers: missing, a string of NumQuestions characters, or an array.
NoAnswers == [type |-> "undefined", elems |-> <<>>]
AnswerArray(n, kind) == [type |-> "array", elems |-> [i \in 1..n |-> kind]]
AnswersInputs ==
    { NoAnswers,
      [type |-> "string", elems |-> [i \in 1..NumQuestions |-> "char"]],
      AnswerArray(NumQuestions - 1, "string"),
      AnswerArray(NumQuestions, "string"),
      AnswerArray(NumQuestions + 1, "string"),
      [type |-> "array",
       elems |-> [i \in 1..NumQuestions |-> IF i = 1 THEN "number" ELSE "string"]] }

\* What a generateContent call can produce in the server model.
ClassifierOutcomes ==
    { CallFailed,
      CallReplied(<<"t", "r", "u", "e">>),
      CallReplied(<<"T", "r", "u", "e", "\n">>),
      CallReplied(<<"f", "a", "l", "s", "e">>) }
ChatOutcomes ==
    { CallFailed,
      CallReplied(<<"-", " ", "*", "*", "word", "*", "*", " ", "a">>),
      CallReplied(<<"#", " ", "a">>) }
RoutineOutcomes ==
    { CallFailed,
      CallReplied(<<"fence", "json", "\n", "[", "sa", ",", "sb", "]", "\n", "fence">>),
      CallReplied(<<"[", "sb", "]">>),
      CallReplied(<<"{", "sa", ":", "n2", "}">>) }

NoPending == [routine |-> <<>>, updatedAt |-> 0, createdAt |-> 0]

IdleReq ==
    [kind |-> "idle", pc |-> "idle", hasText |-> FALSE, hasImage |-> FALSE,
     userId |-> NoUserId, answers |-> NoAnswers, verdict |-> "none",
     classifyCalls |-> 0, genCalls |-> 0, fileExists |-> FALSE, unlinks |-> 0,
     pending |-> NoPending, resp |-> <<>>, after |-> {}, failure |-> "none"]

\* res.status(..).json({success: false, error, details})
ErrorResponse(status, error) ==
    [status |-> status, error |-> error, points |-> <<>>, routine |-> <<>>,
     createdAt |-> 0, updatedAt |-> 0]
\* res.json({success: true, data: {points, timestamp}})
PointsResponse(points) ==
    [status |-> 200, error |-> "", points |-> points, routine |-> <<>>,
     createdAt |-> 0, updatedAt |-> 0]
\* res.json({success: true, data: {routine, createdAt, updatedAt}})
RoutineResponse(doc) ==
    [status |-> 200, error |-> "", points |-> <<>>, routine |-> doc.routine,
     createdAt |-> doc.createdAt, updatedAt |-> doc.updatedAt]

\* History: a call to the generation capability or to the store has failed
\* while serving this request.
Observed(rec, outcome) ==
    IF outcome.failed THEN [rec EXCEPT !.failure = "generation"] ELSE rec
StoreFailed(rec) == [rec EXCEPT !.failure = "store"]

\* The handler answers and returns.
Respond(rec, response) ==
    [rec EXCEPT !.resp = Append(@, response), !.pc = "done"]

\* if (fs.existsSync(imageFile.path)) fs.unlinkSync(imageFile.path)
Unlink(rec) ==
    IF rec.hasImage /\ rec.fileExists
    THEN [rec EXCEPT !.fileExists = FALSE, !.unlinks = @ + 1]
    ELSE rec

\* await model.generateContent(..) issued by a handler
CallGenerate(rec) == [rec EXCEPT !.genCalls = @ + 1, !.pc = "generate"]
\* await isHealthRelated(..) issued by a handler
CallClassifier(rec) == [rec EXCEPT !.classifyCalls = @ + 1, !.pc = "classify"]

----------------------------------------------------------------------------
\* POST /api/chat, up to the first await.
ChatEntry(rec, hasText) ==
    LET r1 == [rec EXCEPT !.kind = "chat", !.hasText = hasText]
    IN  IF ~hasText
        THEN Respond(r1, ErrorResponse(400, "MissingInput"))
        ELSE CallClassifier(r1)

\* A faulty variant of ChatGate: the verdict is recorded but does not gate.
ChatGateOpen(rec, healthRelated) ==
    CallGenerate([rec EXCEPT !.verdict = IF healthRelated THEN "true" ELSE "false"])

\* POST /api/chat, from the classifier's verdict to the generation call.
ChatGate(rec, healthRelated) ==
    LET r1 == [rec EXCEPT !.verdict = IF healthRelated THEN "true" ELSE "false"]
    IN  IF ~healthRelated
        THEN Respond(r1, ErrorResponse(400, "OutOfDomain"))
        ELSE CallGenerate(r1)

\* Both chat handlers, from the generation call's outcome to the response.
ChatAnswer(rec, outcome) ==
    IF outcome.failed
    THEN Respond(rec, ErrorResponse(500, "GenerationFailure"))
    ELSE Respond(rec, PointsResponse(NormalizePoints(outcome.text)))

\* POST /api/chat-with-image, from the parts list to the generation call:
\* fileToGenerativePart may throw.
ImageParts(rec, readOk) ==
    IF rec.hasImage /\ ~readOk
    THEN Respond(Unlink(rec), ErrorResponse(500, "ImageProcessingFailure"))
    ELSE CallGenerate(rec)

\* A faulty variant of ImageEntry: the classifier is asked even without text.
ImageEntryAlwaysClassifies(rec, hasText, hasImage, readOk) ==
    LET r1 == [rec EXCEPT !.kind = "chatImage", !.hasText = hasText,
                          !.hasImage = hasImage, !.fileExists = hasImage]
    IN  IF ~hasText /\ ~hasImage
        THEN Respond(r1, ErrorResponse(400, "MissingInput"))
        ELSE CallClassifier(r1)

\* POST /api/chat-with-image, up to the first await (multer has stored the file).
ImageEntry(rec, hasText, hasImage, readOk) ==
    LET r1 == [rec EXCEPT !.kind = "chatImage", !.hasText = hasText,
                          !.hasImage = hasImage, !.fileExists = hasImage]
    IN  IF ~hasText /\ ~hasImage
        THEN Respond(r1, ErrorResponse(400, "MissingInput"))
        ELSE IF hasText THEN CallClassifier(r1)
        ELSE ImageParts(r1, readOk)

\* A faulty variant of ImageGate: the rejection leaves the upload behind.
ImageGateLeaks(rec, healthRelated, readOk) ==
    LET r1 == [rec EXCEPT !.verdict = IF healthRelated THEN "true" ELSE "false"]
    IN  IF ~healthRelated
        THEN Respond(r1, ErrorResponse(400, "OutOfDomain"))
        ELSE ImageParts(r1, readOk)

\* POST /api/chat-with-image, from the classifier's verdict on.
ImageGate(rec, healthRelated, readOk) ==
    LET r1 == [rec EXCEPT !.verdict = IF healthRelated THEN "true" ELSE "false"]
    IN  IF ~healthRelated
        THEN Respond(Unlink(r1), ErrorResponse(400, "OutOfDomain"))
        ELSE ImageParts(r1, readOk)

\* POST /api/chat-with-image: try / catch / finally around the generation call.
ImageAnswer(rec, outcome) == Unlink(ChatAnswer(rec, outcome))

----------------------------------------------------------------------------
\* A faulty variant of GenerateEntry: any array of answers is accepted.
GenerateEntryAnyLength(rec, userId, answers) ==
    LET r1 == [rec EXCEPT !.kind = "generate", !.userId = userId, !.answers = answers]
    IN  IF userId = NoUserId
        THEN Respond(r1, ErrorResponse(400, "MissingUserId"))
        ELSE IF answers.type # "array"
        THEN Respond(r1, ErrorResponse(400, "AnswerCountMismatch"))
        ELSE CallGenerate(r1)

\* POST /api/v1/routine/generate, up to the generation call.
GenerateEntry(rec, userId, answers) ==
    LET r1 == [rec EXCEPT !.kind = "generate", !.userId = userId, !.answers = answers]
    IN  IF userId = NoUserId
        THEN Respond(r1, ErrorResponse(400, "MissingUserId"))
        ELSE IF \/ answers.type = "undefined"
                \/ answers.type # "array"
                \/ Len(answers.elems) # NumQuestions
        THEN Respond(r1, ErrorResponse(400, "AnswerCountMismatch"))
        ELSE CallGenerate(r1)

\* POST /api/v1/routine/generate, from the reply to the findOneAndUpdate call;
\* t is the clock when the update is built (updatedAt: new Date(), and the
\* schema's createdAt default for an insert).
GenerateParse(rec, outcome, t) ==
    IF outcome.failed
    THEN Respond(rec, ErrorResponse(500, "GenerationFailure"))
    ELSE LET p == ParseRoutine(outcome.text)
         IN  IF ~p.ok
             THEN Respond(rec, ErrorResponse(500, "MalformedRoutineOutput"))
             ELSE [rec EXCEPT !.pc = "upsert",
                              !.pending = [routine |-> p.tasks, updatedAt |-> t,
                                           createdAt |-> t]]

\* A faulty variant of UpdatedDoc: the matched document is overwritten, its
\* createdAt included.
UpdatedDocOverwritten(doc, pending) ==
    [doc EXCEPT !.routine = pending.routine, !.updatedAt = pending.updatedAt,
                !.createdAt = pending.createdAt]

\* The update of a matched document: $set routine and updatedAt.
UpdatedDoc(doc, pending) ==
    [doc EXCEPT !.routine = pending.routine, !.updatedAt = pending.updatedAt]

\* The document an upsert inserts: the filter's userId, the $set fields and
\* the schema defaults.
InsertedDoc(userId, pending) ==
    [userId |-> userId, routine |-> pending.routine,
     createdAt |-> pending.createdAt, updatedAt |-> pending.updatedAt]

\* The documents a { userId } filter matches.
Matching(userId) == {d \in 1..Len(store) : store[d].userId = userId}

\* History of a document: the request that wrote it last, and the request and
\* the timestamps of the write before that one (prevWriter 0: there was none).
\* seq numbers the writes in the order the store applied them.
WritesApplied ==
    IF writes = <<>> THEN 0
    ELSE CHOOSE n \in {writes[d].seq : d \in 1..Len(writes)} :
            \A d \in 1..Len(writes) : writes[d].seq <= n
FirstWrite(r) ==
    [writer |-> r, prevWriter |-> 0, prevCreatedAt |-> 0, prevUpdatedAt |-> 0,
     seq |-> WritesApplied + 1]
NextWrite(r, d) ==
    [writer |-> r, prevWriter |-> writes[d].writer,
     prevCreatedAt |-> store[d].createdAt, prevUpdatedAt |-> store[d].updatedAt,
     seq |-> WritesApplied + 1]

----------------------------------------------------------------------------
\* POST /api/v1/routine/current, up to the findOne call.
CurrentEntry(rec, userId) ==
    LET r1 == [rec EXCEPT !.kind = "current", !.userId = userId]
    IN  IF userId = NoUserId
        THEN Respond(r1, ErrorResponse(400, "MissingUserId"))
        ELSE [r1 EXCEPT !.pc = "find"]

\* Routine.findOne({ userId }).sort({ updatedAt: -1 }): the documents that can
\* come first in the sort (equal updatedAt values leave the order open).
FindOne(userId) ==
    {d \in Matching(userId) :
        \A e \in Matching(userId) : store[e].updatedAt <= store[d].updatedAt}

\* POST /api/v1/routine/current, from the query's result to the response;
\* found is the set holding the document found, empty for null.
CurrentAnswer(rec, found) ==
    IF found = {}
    THEN Respond(rec, ErrorResponse(404, "NotFound"))
    ELSE Respond(rec, RoutineResponse(CHOOSE doc \in found : TRUE))

----------------------------------------------------------------------------
\* Requests arrive in slot order; a slot serves one request.
CanStart(r) ==
    /\ req[r].kind = "idle"
    /\ IF r = 1 THEN TRUE ELSE req[r - 1].kind # "idle"

\* History, kept for the routine requests only: which of them had been answered
\* when this one arrived.
Arrived(rec) == [rec EXCEPT !.after = ended]
Ended(r) == IF req'[r].pc = "done" THEN ended \cup {r} ELSE ended

ChatStart(r) ==
    /\ CanStart(r)
    /\ \E hasText \in BOOLEAN :
          req' = [req EXCEPT ![r] = ChatEntry(@, hasText)]
    /\ UNCHANGED <<store, now, writes, ended, runVars>>

ChatClassified(r) ==
    /\ req[r].kind = "chat" /\ req[r].pc = "classify"
    /\ \E outcome \in ClassifierOutcomes :
          req' = [req EXCEPT ![r] = ChatGate(Observed(@, outcome), isHealthRelated(outcome).value)]
    /\ UNCHANGED <<store, now, writes, ended, runVars>>

ChatGenerated(r) ==
    /\ req[r].kind = "chat" /\ req[r].pc = "generate"
    /\ \E outcome \in ChatOutcomes :
          req' = [req EXCEPT ![r] = ChatAnswer(Observed(@, outcome), outcome)]
    /\ UNCHANGED <<store, now, writes, ended, runVars>>

ImageStart(r) ==
    /\ CanStart(r)
    /\ \E hasText \in BOOLEAN, hasImage \in BOOLEAN, readOk \in BOOLEAN :
          req' = [req EXCEPT ![r] = ImageEntry(@, hasText, hasImage, readOk)]
    /\ UNCHANGED <<store, now, writes, ended, runVars>>

ImageClassified(r) ==
    /\ req[r].kind = "chatImage" /\ req[r].pc = "classify"
    /\ \E outcome \in ClassifierOutcomes, readOk \in BOOLEAN :
          req' = [req EXCEPT ![r] = ImageGate(Observed(@, outcome), isHealthRelated(outcome).value, readOk)]
    /\ UNCHANGED <<store, now, writes, ended, runVars>>

ImageGenerated(r) ==
    /\ req[r].kind = "chatImage" /\ req[r].pc = "generate"
    /\ \E outcome \in ChatOutcomes :
          req' = [req EXCEPT ![r] = ImageAnswer(Observed(@, outcome), outcome)]
    /\ UNCHANGED <<store, now, writes, ended, runVars>>

GenerateStart(r) ==
    /\ CanStart(r)
    /\ \E userId \in UserIds \cup {NoUserId}, answers \in AnswersInputs :
          req' = [req EXCEPT ![r] = GenerateEntry(Arrived(@), userId, answers)]
    /\ ended' = Ended(r)
    /\ UNCHANGED <<store, now, writes, runVars>>

\* The generation call resolves; the round trip has taken time.
GenerateReplied(r) ==
    /\ req[r].kind = "generate" /\ req[r].pc = "generate"
    /\ now' = now + 1
    /\ \E outcome \in RoutineOutcomes :
          req' = [req EXCEPT ![r] = GenerateParse(Observed(@, outcome), outcome, now')]
    /\ ended' = Ended(r)
    /\ UNCHANGED <<store, writes, runVars>>

\* The store finds a document for the filter and updates it.
StoreUpdate(r) ==
    /\ req[r].kind = "generate" /\ req[r].pc = "upsert"
    /\ \E d \in Matching(req[r].userId) :
          LET doc == UpdatedDoc(store[d], req[r].pending)
          IN  /\ store' = [store EXCEPT ![d] = doc]
              /\ writes' = [writes EXCEPT ![d] = NextWrite(r, d)]
              /\ req' = [req EXCEPT ![r] = Respond(@, RoutineResponse(doc))]
    /\ ended' = ended \cup {r}
    /\ UNCHANGED <<now, runVars>>

\* The store finds no document for the filter: the upsert will insert.
StoreMiss(r) ==
    /\ req[r].kind = "generate" /\ req[r].pc = "upsert"
    /\ Matching(req[r].userId) = {}
    /\ req' = [req EXCEPT ![r].pc = "insert"]
    /\ UNCHANGED <<store, now, writes, ended, runVars>>

\* The insert of an upsert that matched nothing: userId carries no unique
\* index, so nothing makes it fail when a document has appeared meanwhile.
StoreInsert(r) ==
    /\ req[r].kind = "generate" /\ req[r].pc = "insert"
    /\ LET doc == InsertedDoc(req[r].userId, req[r].pending)
       IN  /\ store' = Append(store, doc)
           /\ writes' = Append(writes, FirstWrite(r))
           /\ req' = [req EXCEPT ![r] = Respond(@, RoutineResponse(doc))]
    /\ ended' = ended \cup {r}
    /\ UNCHANGED <<now, runVars>>

\* A faulty variant of StoreFail: the rejection of findOneAndUpdate is not
\* caught, and the request is left without a response.
StoreFailEscapes(r) ==
    /\ req[r].kind = "generate" /\ req[r].pc = "upsert"
    /\ req' = [req EXCEPT ![r] = [StoreFailed(@) EXCEPT !.pc = "unhandled"]]
    /\ ended' = ended
    /\ UNCHANGED <<store, now, writes, runVars>>

\* A faulty variant of StoreFail: the document is written although the call
\* is answered as failed.
StoreFailWrites(r) ==
    /\ req[r].kind = "generate" /\ req[r].pc = "upsert"
    /\ store' = Append(store, InsertedDoc(req[r].userId, req[r].pending))
    /\ writes' = Append(writes, FirstWrite(r))
    /\ req' = [req EXCEPT ![r] =
                    Respond(StoreFailed(@), ErrorResponse(500, "StoreFailure"))]
    /\ ended' = ended \cup {r}
    /\ UNCHANGED <<now, runVars>>

\* findOneAndUpdate rejects: the inner catch answers.
StoreFail(r) ==
    /\ req[r].kind = "generate" /\ req[r].pc = "upsert"
    /\ req' = [req EXCEPT ![r] =
                    Respond(StoreFailed(@), ErrorResponse(500, "StoreFailure"))]
    /\ ended' = ended \cup {r}
    /\ UNCHANGED <<store, now, writes, runVars>>

CurrentStart(r) ==
    /\ CanStart(r)
    /\ \E userId \in UserIds \cup {NoUserId} :
          req' = [req EXCEPT ![r] = CurrentEntry(@, userId)]
    /\ UNCHANGED <<store, now, writes, ended, runVars>>

\* The store answers the query.
CurrentFound(r) ==
    /\ req[r].kind = "current" /\ req[r].pc = "find"
    /\ \/ /\ Matching(req[r].userId) = {}
          /\ req' = [req EXCEPT ![r] = CurrentAnswer(@, {})]
       \/ \E d \in FindOne(req[r].userId) :
             req' = [req EXCEPT ![r] = CurrentAnswer(@, {store[d]})]
    /\ UNCHANGED <<store, now, writes, ended, runVars>>

\* findOne rejects: the catch answers.
CurrentFail(r) ==
    /\ req[r].kind = "current" /\ req[r].pc = "find"
    /\ req' = [req EXCEPT ![r] =
                    Respond(StoreFailed(@), ErrorResponse(500, "InternalError"))]
    /\ UNCHANGED <<store, now, writes, ended, runVars>>

ServerInit ==
    /\ req = [r \in Slots |-> IdleReq]
    /\ store = <<>>
    /\ now = 0
    /\ writes = <<>>
    /\ ended = {}

ChatNext ==
    \E r \in Req :
        \/ ChatStart(r) \/ ChatClassified(r) \/ ChatGenerated(r)
        \/ ImageStart(r) \/ ImageClassified(r) \/ ImageGenerated(r)

RoutineNext ==
    \E r \in Req :
        \/ GenerateStart(r) \/ GenerateReplied(r)
        \/ StoreUpdate(r) \/ StoreMiss(r) \/ StoreInsert(r) \/ StoreFail(r)

CurrentNext == CurrentStart(Fetcher) \/ CurrentFound(Fetcher) \/ CurrentFail(Fetcher)

(***************************************************************************)
(* A run of the routine handler on one reply, fenced or not                *)
(***************************************************************************)
MaxInnerLen == 3
RoutineChars == {"fence", "json", "\n", "[", "]", "{", "}", ",", ":",
                 "sa", "sb", "n2", "x"}
RoutineSamples ==
    { <<"[", "sa", ",", "sb", "]">>,
      <<"[", "sb", ",", "sa", "]">>,
      <<"[", "sa", ",", "n2", "]">>,
      <<"{", "sa", ":", "n2", "}">>,
      <<"[", "[", "sa", "]", "]">>,
      <<"[", "sa", ",", "]">>,
      <<"[", "sa", "sb", "]">>,
      <<"[", "\n", "sa", ",", "\n", "sb", "\n", "]">>,
      <<"x", "\n", "[", "sa", "]">>,
      <<"[", "sa", "]", "\n", "x">> }
FenceForms == {"none", "bare", "bareLine", "json", "jsonLine"}

\* The reply text: inner wrapped in a leading and a trailing fence.
Fenced(form, inner) ==
    IF form = "bare" THEN <<"fence">> \o inner \o <<"fence">>
    ELSE IF form = "bareLine" THEN <<"fence", "\n">> \o inner \o <<"\n", "fence">>
    ELSE IF form = "json" THEN <<"fence", "json">> \o inner \o <<"fence">>
    ELSE IF form = "jsonLine" THEN <<"fence", "json", "\n">> \o inner \o <<"\n", "fence", "\n">>
    ELSE inner

RoutineParseInit ==
    /\ rpInner \in SeqsUpTo(RoutineChars, MaxInnerLen) \cup RoutineSamples
    /\ rpForm \in FenceForms
    /\ rpOutcome = GenerateEntry(IdleReq, "u1", AnswerArray(NumQuestions, "string"))
    /\ rpPc = "reply"

RoutineParse ==
    /\ rpPc = "reply"
    /\ rpOutcome' = GenerateParse(rpOutcome, CallReplied(Fenced(rpForm, rpInner)), 1)
    /\ rpPc' = "parsed"
    /\ UNCHANGED <<rpInner, rpForm, serverVars, normVars, clVars>>

\* Idle values of the runs' variables, for the specifications that do not use them.
NormIdle == normText = <<>> /\ normPoints = <<>> /\ normAgain = <<>> /\ normPc = "idle"
RpIdle == rpInner = <<>> /\ rpForm = "none" /\ rpOutcome = IdleReq /\ rpPc = "idle"
ClIdle == clOutcome = CallFailed /\ clResult = [value |-> FALSE, threw |-> FALSE]
              /\ clPc = "idle"
ServerIdle == req = <<>> /\ store = <<>> /\ now = 0 /\ writes = <<>> /\ ended = {}

NormalizeNext == Normalize \/ Renormalize
InitNormalize == NormInit /\ RpIdle /\ ClIdle /\ ServerIdle
SpecNormalize == InitNormalize /\ [][NormalizeNext]_vars

InitRoutineParse == RoutineParseInit /\ NormIdle /\ ClIdle /\ ServerIdle
RoutineParseNext == RoutineParse
SpecRoutineParse == InitRoutineParse /\ [][RoutineParseNext]_vars

InitClassify == ClassifyInit /\ NormIdle /\ RpIdle /\ ServerIdle
ClassifyNext == ClassifyReturn
SpecClassify == InitClassify /\ [][ClassifyNext]_vars

Init == ServerInit /\ NormIdle /\ RpIdle /\ ClIdle

\* The chat endpoints and the routine endpoints share no state: the chat
\* handlers touch only their own request and its uploaded file, the routine
\* handlers only their own request and the routines collection.
SpecChat == Init /\ [][ChatNext]_vars

Next == RoutineNext
Spec == Init /\ [][Next]_vars

\* The routine endpoints together: the generate requests and a fetch-current.
FetchNext == RoutineNext \/ CurrentNext
SpecFetch == Init /\ [][FetchNext]_vars

\* All the endpoints of the server.
ServerNext == ChatNext \/ RoutineNext \/ CurrentNext
SpecServer == Init /\ [][ServerNext]_vars

(***************************************************************************)
(* Properties                                                              *)
(***************************************************************************)
ChatRequests == {r \in Req : req[r].kind \in {"chat", "chatImage"}}
ImageRequests == {r \in Req : req[r].kind = "chatImage"}
GenerateRequests == {r \in Req : req[r].kind = "generate"}
Answered(r, response) == req[r].pc = "done" /\ req[r].resp = <<response>>

\* C1: a chat request (either endpoint) with text whose classifier verdict is
\* false has been answered with OutOfDomain (status 400, no points) and has
\* made no generation call.
C1_OutOfDomainNeverGenerates ==
    \A r \in ChatRequests :
        req[r].hasText /\ req[r].verdict = "false"
            => /\ Answered(r, ErrorResponse(400, "OutOfDomain"))
               /\ req[r].genCalls = 0
C1_Witness ==
    \E r \in ImageRequests : req[r].hasText /\ req[r].verdict = "false"

\* C2 as stated: an image-only request never calls the classifier and has
\* called the generation capability by the time it is answered.
C2_ImageOnlyAlwaysGenerates ==
    \A r \in ImageRequests :
        req[r].hasImage /\ ~req[r].hasText
            => /\ req[r].classifyCalls = 0
               /\ req[r].pc = "done" => req[r].genCalls >= 1

\* C2 amended: an image-only request never calls the classifier, and by the
\* time it is answered it has called the generation capability exactly once,
\* unless the image could not be read: then it is answered with
\* ImageProcessingFailure and no generation call is made.
C2_ImageOnlyGeneratesUnlessUnreadable ==
    \A r \in ImageRequests :
        req[r].hasImage /\ ~req[r].hasText
            => /\ req[r].classifyCalls = 0
               /\ req[r].pc = "done" =>
                    IF req[r].resp = <<ErrorResponse(500, "ImageProcessingFailure")>>
                    THEN req[r].genCalls = 0
                    ELSE req[r].genCalls = 1
C2_Witness ==
    \E r \in ImageRequests :
        /\ req[r].hasImage /\ ~req[r].hasText /\ req[r].pc = "done"
        /\ req[r].genCalls = 1 /\ req[r].resp[1].status = 200

\* C3: the uploaded image of a chat-with-image request is never unlinked
\* twice, and once the request is answered it has been unlinked exactly once
\* and the file is gone, whichever way the request ended.
C3_ImageReleasedExactlyOnce ==
    \A r \in ImageRequests :
        req[r].hasImage
            => /\ req[r].unlinks <= 1
               /\ req[r].pc = "done" => req[r].unlinks = 1 /\ ~req[r].fileExists
C3_Witness ==
    \E r1, r2 \in ImageRequests :
        /\ req[r1].hasImage /\ Answered(r1, ErrorResponse(400, "OutOfDomain"))
        /\ req[r1].unlinks = 1
        /\ req[r2].hasImage /\ Answered(r2, ErrorResponse(500, "GenerationFailure"))
        /\ req[r2].unlinks = 1

WrongCount(r) ==
    req[r].answers.type = "array" /\ Len(req[r].answers.elems) # NumQuestions

\* C4 as stated: a routine-generate request whose answers sequence has a
\* length other than 10 is answered with AnswerCountMismatch and makes no
\* generation call, whatever its other fields.
C4_WrongCountAlwaysMismatch ==
    \A r \in GenerateRequests :
        WrongCount(r)
            => /\ Answered(r, ErrorResponse(400, "AnswerCountMismatch"))
               /\ req[r].genCalls = 0

\* C4 amended: such a request makes no generation call and is answered with
\* AnswerCountMismatch when it carries a userId, with MissingUserId when it
\* does not.
C4_WrongCountNeverGenerates ==
    \A r \in GenerateRequests :
        WrongCount(r)
            => /\ req[r].genCalls = 0
               /\ Answered(r, ErrorResponse(400,
                      IF req[r].userId = NoUserId THEN "MissingUserId"
                      ELSE "AnswerCountMismatch"))
C4_Witness ==
    \E r \in GenerateRequests :
        /\ WrongCount(r) /\ req[r].userId \in UserIds
        /\ Answered(r, ErrorResponse(400, "AnswerCountMismatch"))

\* C5: the routines collection never holds two documents for one userId.
C5_AtMostOneRoutinePerUser ==
    \A u \in UserIds : Cardinality(Matching(u)) <= 1

\* A document whose last two writes came from requests that ran one after
\* the other: the earlier was answered before the later arrived.
WrittenInTurn(d) ==
    /\ writes[d].prevWriter # 0
    /\ writes[d].prevWriter \in req[writes[d].writer].after

\* C6: when a document is written by two routine-generate requests one after
\* the other, its createdAt after the second write is its createdAt after
\* the first, and its updatedAt after the second write is greater than after
\* the first.
C6_SecondUpsertKeepsCreatedAt ==
    \A d \in 1..Len(store) :
        WrittenInTurn(d)
            => /\ store[d].createdAt = writes[d].prevCreatedAt
               /\ store[d].updatedAt > writes[d].prevUpdatedAt
C6_Witness ==
    \E d \in 1..Len(store) : WrittenInTurn(d) /\ store[d].updatedAt > store[d].createdAt

\* The text is a JSON array of string literals: brackets around string
\* literals separated by commas, white space anywhere between the tokens.
IsStringArrayText(x) ==
    LET t == SelectSeq(x, LAMBDA c : c \notin WhiteSpace)
    IN  /\ Len(t) >= 2 /\ t[1] = "[" /\ t[Len(t)] = "]"
        /\ \/ Len(t) = 2
           \/ /\ Len(t) % 2 = 1
              /\ \A i \in 2..(Len(t) - 1) :
                    IF i % 2 = 0 THEN t[i] \in StringLiterals ELSE t[i] = ","
StringsOf(x) == SelectSeq(x, LAMBDA c : c \in StringLiterals)
StartsWith(x, c) == x # <<>> /\ Head(x) = c

\* A reply without a fence of its own, in a fence or not; a bare fence
\* directly followed by the word json is the tagged fence around the rest.
PlainOrFenced ==
    /\ ~StartsWith(Trim(rpInner), "fence")
    /\ ~(rpForm = "bare" /\ StartsWith(rpInner, "json"))

\* C7: whether the reply comes bare or inside a triple-backtick fence (with
\* or without the json tag), the handler goes on to the upsert with the
\* reply's strings, in order, exactly when the reply is a JSON array of
\* strings; every other reply ends the request with MalformedRoutineOutput.
C7_FencedParsesLikePlain ==
    rpPc = "parsed" /\ PlainOrFenced
        => IF IsStringArrayText(rpInner)
           THEN /\ rpOutcome.pc = "upsert"
                /\ rpOutcome.pending.routine = StringsOf(rpInner)
                /\ rpOutcome.resp = <<>>
           ELSE /\ rpOutcome.pc = "done"
                /\ rpOutcome.resp = <<ErrorResponse(500, "MalformedRoutineOutput")>>
C7_Witness ==
    /\ rpPc = "parsed" /\ rpForm = "jsonLine"
    /\ rpInner = <<"[", "sa", ",", "sb", "]">>
    /\ rpOutcome.pending.routine = <<"sa", "sb">>

\* C8: every point the normalizer emits is longer than 10 characters and
\* does not begin with '#', '-', the bullet or '*'.
C8_PointsCleanAndLong ==
    \A i \in 1..Len(normPoints) :
        /\ StrLen(normPoints[i]) > LengthThreshold
        /\ Head(normPoints[i]) \notin {"#", "-", "bullet", "*"}

\* C9: normalizing the normalizer's output, joined with line breaks, yields
\* the same points.
C9_NormalizerIdempotent ==
    normPc = "renormalized" => normAgain = normPoints

\* The reply is the word true in any letter case with white space around it.
IsTrueReply(text) ==
    \E i \in 1..Len(text) :
        /\ i + 3 <= Len(text)
        /\ \A j \in 1..Len(text) : (j < i \/ j > i + 3) => text[j] \in WhiteSpace
        /\ text[i] \in {"t", "T"} /\ text[i + 1] \in {"r", "R"}
        /\ text[i + 2] \in {"u", "U"} /\ text[i + 3] \in {"e", "E"}

\* C10: the classifier hands its caller true exactly when the call succeeded
\* and replied the word true (any case, white space around it), false
\* otherwise, and never an error.
C10_ClassifierFailsClosed ==
    clPc = "returned"
        => /\ ~clResult.threw
           /\ clResult.value <=> (~clOutcome.failed /\ IsTrueReply(clOutcome.text))
C10_Witness ==
    /\ clPc = "returned" /\ clResult.value
    /\ clOutcome.text = <<"\n", "T", "r", "u", "E">>

\* C11: on every endpoint, a request during which a call to the generation
\* capability or to the store failed has been answered, in the step in which
\* the failure was seen, with exactly one error response (a status of 400 or
\* more and an error message); no request holds more than one response, and a
\* request has returned exactly when it holds one.
C11_FailuresAnsweredOnce ==
    \A r \in Slots :
        /\ Len(req[r].resp) <= 1
        /\ req[r].pc = "done" <=> Len(req[r].resp) = 1
        /\ req[r].failure # "none" =>
              /\ req[r].pc = "done"
              /\ Len(req[r].resp) = 1
              /\ req[r].resp[1].status >= 400
              /\ req[r].resp[1].error # ""
              /\ req[r].resp[1].points = <<>>
              /\ req[r].resp[1].routine = <<>>

\* A generate request whose upsert failed and a fetch whose query failed have
\* both been answered, next to a chat request whose generation call failed.
C11_Witness ==
    /\ \E r \in Req : req[r].kind = "generate" /\ req[r].failure = "store"
                       /\ Answered(r, ErrorResponse(500, "StoreFailure"))
    /\ \E r \in Req : req[r].kind \in {"chat", "chatImage"}
                       /\ req[r].failure = "generation"
                       /\ req[r].verdict = "true"
                       /\ Answered(r, ErrorResponse(500, "GenerationFailure"))
    /\ req[Fetcher].failure = "store"
    /\ Answered(Fetcher, ErrorResponse(500, "InternalError"))

\* The document of userId that the store wrote last.
MostRecentUpsert(userId) ==
    CHOOSE d \in Matching(userId) :
        \A e \in Matching(userId) : writes[e].seq <= writes[d].seq
\* The fetch-current request r gets the store's answer in this step.
FetchAnswers(r) ==
    /\ req[r].kind = "current" /\ req[r].pc = "find"
    /\ req'[r].pc = "done" /\ req'[r].failure = "none"

\* C12: a fetch-current request for a userId that the store answers gets
\* NotFound (status 404) exactly when the collection holds no routine for that
\* userId, and otherwise the routine, createdAt and updatedAt of the document
\* that the most recent successful upsert for that userId wrote, which is the
\* one with the greatest updatedAt.
C12_FetchReturnsMostRecent ==
    [][\A r \in Slots :
          FetchAnswers(r) =>
              LET userId == req[r].userId
                  response == req'[r].resp[1]
              IN  /\ response.status = 404 <=> Matching(userId) = {}
                  /\ Matching(userId) # {} =>
                        /\ response = RoutineResponse(store[MostRecentUpsert(userId)])
                        /\ \A e \in Matching(userId) :
                              store[e].updatedAt <= response.updatedAt]_vars

\* The answers of request r are an array of NumQuestions elements.
TenAnswers(r) ==
    req[r].answers.type = "array" /\ Len(req[r].answers.elems) = NumQuestions
AllStrings(r) ==
    \A i \in 1..Len(req[r].answers.elems) : req[r].answers.elems[i] = "string"

\* C13: a generate request reaches the generation call only with a userId and
\* an answers array of exactly 10 elements that are all strings; a request with
\* a userId and 10 answers of which one is not a string has been answered with
\* AnswerCountMismatch (status 400) without a generation call.
C13_OnlyStringAnswersAccepted ==
    \A r \in GenerateRequests :
        /\ req[r].genCalls > 0 =>
              req[r].userId # NoUserId /\ TenAnswers(r) /\ AllStrings(r)
        /\ (req[r].userId # NoUserId /\ TenAnswers(r) /\ ~AllStrings(r)) =>
              /\ Answered(r, ErrorResponse(400, "AnswerCountMismatch"))
              /\ req[r].genCalls = 0

\* Request r is a generate request at its upsert: it passed validation, its
\* one generation call succeeded and its reply parsed as an array of strings.
AtUpsert(r) ==
    /\ req[r].kind = "generate" /\ req[r].pc \in {"upsert", "insert"}
    /\ req[r].userId # NoUserId /\ TenAnswers(r)
    /\ req[r].genCalls = 1 /\ req[r].failure = "none"
    /\ \A i \in 1..Len(req[r].pending.routine) :
          req[r].pending.routine[i] \in StringLiterals
\* Request r ends in this step with the routine it stored.
EndsStored(r) ==
    /\ req'[r].pc = "done" /\ Len(req'[r].resp) = 1
    /\ req'[r].resp[1].status = 200
    /\ \E d \in 1..Len(store') : /\ store'[d].userId = req[r].userId
                                /\ req'[r].resp[1] = RoutineResponse(store'[d])

\* C14: every step keeps all routine documents (none is deleted, none changes
\* its userId), and a step that changes the collection is the upsert of a
\* generate request that passed validation, whose generation call succeeded and
\* whose reply parsed as an array of strings, touching only documents of that
\* request's userId; every other step of every request (a request ending with
\* MissingUserId, AnswerCountMismatch, GenerationFailure or
\* MalformedRoutineOutput, a fetch-current request, a chat request) leaves the
\* collection as it was.
C14_StoreChangesOnlyInUpsert ==
    [][/\ Len(store') >= Len(store)
       /\ \A d \in 1..Len(store) : store'[d].userId = store[d].userId
       /\ store' # store =>
             \E r \in Req :
                 /\ AtUpsert(r) /\ EndsStored(r)
                 /\ \A d \in 1..Len(store) :
                       store'[d] # store[d] => store[d].userId = req[r].userId
                 /\ \A d \in (Len(store) + 1)..Len(store') :
                       store'[d].userId = req[r].userId
       /\ \A r \in Slots :
             (req'[r] # req[r] /\ ~(AtUpsert(r) /\ EndsStored(r))) => store' = store]_vars

\* A routine is stored and a fetch-current has returned it, next to a request
\* that ended with an error.
C14_Witness ==
    /\ store # <<>>
    /\ req[Fetcher].pc = "done" /\ req[Fetcher].resp[1].status = 200
    /\ \E r \in Req : /\ req[r].pc = "done"
                      /\ req[r].resp[1].error
                            \in {"MissingUserId", "AnswerCountMismatch",
                                 "GenerationFailure", "MalformedRoutineOutput",
                                 "OutOfDomain"}

\* The cleaned lines of a raw text, before any is discarded.
CleanedLines(text) ==
    LET lines == SelectSeq(SplitLines(text), LAMBDA line : Trim(line) # <<>>)
    IN  [i \in 1..Len(lines) |-> CleanPoint(lines[i])]
OnlySeparators(p) == \A i \in 1..Len(p) : p[i] \in SeparatorChars

\* C15: the points are the cleaned lines, in their order, without those that
\* are empty, consist solely of the characters ':', '#', '-', '=' or have a
\* length of at most 10; every other cleaned line is among the points.
C15_DiscardsOnlySeparatorLines ==
    normPc # "raw" =>
        normPoints = SelectSeq(CleanedLines(normText),
                               LAMBDA p : /\ p # <<>>
                                          /\ ~OnlySeparators(p)
                                          /\ StrLen(p) > LengthThreshold)

====
